---- MODULE Spec2Model ----
(***************************************************************************)
(* One invocation of the worktree helper of src/main.py: the dispatcher    *)
(* main(), the lifecycle operations list / bare / add / remove / switch,   *)
(* the selector, and every git subprocess they issue, in program order.    *)
(*                                                                         *)
(* Text is modelled structurally.  A whitespace token (a word of a listing *)
(* line, one argv element, one printed path) is a record                   *)
(*     [abs |-> does it start with "/", parts |-> its "/"-separated parts] *)
(* so "/repo/a" is [abs |-> TRUE, parts |-> <<"repo", "a">>], the word     *)
(* "(bare)" is [abs |-> FALSE, parts |-> <<"(bare)">>], "." is             *)
(* [abs |-> FALSE, parts |-> <<".">>] and "" is [abs |-> FALSE, parts |->  *)
(* <<>>].  A listing line is the sequence of its whitespace tokens, a      *)
(* listing is the sequence of its lines; a blank line has no token.        *)
(*                                                                         *)
(* Spec runs the program over the listings git prints (the main worktree   *)
(* first, one line per worktree).  ParseSpec runs the same program over    *)
(* arbitrary listing texts: blank lines, any order, several bare records.  *)
(***************************************************************************)
EXTENDS Integers, Sequences, FiniteSets, TLC

VARIABLES
    pc,                  \* position of the process in main() and the operation
    command,             \* args.command
    args,                \* [all, force, path]: the parsed arguments
    repo,                \* what "git worktree list" prints for this repository
    cwd,                 \* the process's current working directory
    cwd0,                \* the caller's working directory at start (history)
    calls,               \* the git subprocesses issued so far, in order
    stdout,              \* what print() wrote to standard output
    stderr,              \* what print(..., file=sys.stderr) wrote
    log,                 \* the logging records written (level:message kind)
    outcome,             \* <<p>> once the operation returned the Path p
    exc,                 \* the exception that escaped to the interpreter
    exitCode,            \* <<c>> once the process ended with status c
    bare_path,           \* local of add_worktree / remove_worktree / cd_bare
    worktree_path,       \* local of add_worktree
    default_branch_name, \* local of add_worktree
    worktrees,           \* local of remove_worktree (--all): the snapshot
    idx,                 \* position of the for loop over worktrees
    options,             \* local of select_worktree
    choice,              \* local of select_worktree: <<line>> once chosen
    selection,           \* how the iterfzf prompt ended (history)
    dir_path,            \* local of remove_worktree / switch_worktree
    cwd_path             \* local of remove_worktree

vars == << pc, command, args, repo, cwd, cwd0, calls, stdout, stderr, log,
           outcome, exc, exitCode, bare_path, worktree_path,
           default_branch_name, worktrees, idx, options, choice, selection,
           dir_path, cwd_path >>

(***************************************************************************)
(* Bounds of the model.                                                    *)
(***************************************************************************)
MaxLines == 3            \* a listing has at most this many lines

MaxTextLines == 3        \* an arbitrary listing text has at most this many

(***************************************************************************)
(* Text and pathlib.Path.                                                  *)
(***************************************************************************)
W(x) == [abs |-> FALSE, parts |-> <<x>>]

AbsText(ps) == [abs |-> TRUE, parts |-> ps]

EmptyStr == [abs |-> FALSE, parts |-> <<>>]

DotStr == [abs |-> FALSE, parts |-> <<".">>]

IsRealPart(x) == x # "." /\ x # ""

\* Path(text): "." and empty components are dropped, ".." is kept.
PathOf(s) == [abs |-> s.abs, parts |-> SelectSeq(s.parts, IsRealPart)]

\* Path(): the current-directory path, whose text is ".".
EmptyPath == PathOf(EmptyStr)

\* str(path)
Str(p) == IF ~p.abs /\ p.parts = <<>> THEN DotStr ELSE p

\* path / text: an absolute right operand replaces the left one.
JoinPath(p, s) ==
    LET q == PathOf(s)
    IN  IF q.abs THEN q ELSE [abs |-> p.abs, parts |-> p.parts \o q.parts]

\* path.name: the last component, "" when there is none.
Name(p) == IF p.parts = <<>> THEN "" ELSE p.parts[Len(p.parts)]

path_is_truthy(p) == ~(Str(p) = DotStr)

(***************************************************************************)
(* Listing lines.                                                          *)
(***************************************************************************)
\* the parts of the model's words that contain the literal "(bare)"
MarkerParts == {"(bare)"}

\* "(bare)" in line
HasBare(line) ==
    \E i \in 1..Len(line) :
        \E j \in 1..Len(line[i].parts) : line[i].parts[j] \in MarkerParts

\* line.split() is not empty: the line is neither empty nor all blanks
HasTokens(line) == Len(line) > 0

\* line.split()[0]
FirstToken(line) == line[1]

RECURSIVE LastBare(_, _)
\* a scan that keeps the last line that contains "(bare)" instead
LastBare(lines, i) ==
    IF i > Len(lines) THEN 0
    ELSE LET later == LastBare(lines, i + 1)
         IN  IF later # 0 THEN later
             ELSE IF HasBare(lines[i]) THEN i ELSE 0

RECURSIVE FirstBare(_, _)
\* index of the first line from i on that contains "(bare)", 0 if none
FirstBare(lines, i) ==
    IF i > Len(lines) THEN 0
    ELSE IF HasBare(lines[i]) THEN i
    ELSE FirstBare(lines, i + 1)

\* a loop that takes every line, the bare one too
NextLine(lines, i) == IF i > Len(lines) THEN 0 ELSE i

RECURSIVE NextNonBare(_, _)
\* index of the first line from i on that the --all loop does not skip
NextNonBare(lines, i) ==
    IF i > Len(lines) THEN 0
    ELSE IF ~HasBare(lines[i]) THEN i
    ELSE NextNonBare(lines, i + 1)

\* a filter that forgets to drop the bare record
OptionsKeepAll(lines, exclude_bare) == lines

\* select_worktree's filter
Options(lines, exclude_bare) ==
    LET keep(line) == ~(HasBare(line) /\ exclude_bare)
    IN  SelectSeq(lines, keep)

\* get_bare_worktree_path over the lines of one listing
HasBareLine(lines) == FirstBare(lines, 1) # 0

BareOf(lines) == PathOf(FirstToken(lines[FirstBare(lines, 1)]))

\* a resolver that returns Path() where it should raise
BareWorktreePathOrNothing(lines) ==
    IF HasBareLine(lines)
    THEN [found |-> TRUE, path |-> BareOf(lines)]
    ELSE [found |-> TRUE, path |-> EmptyPath]

\* get_bare_worktree_path: the path it returns (found), or ValueError
BareWorktreePath(lines) ==
    IF HasBareLine(lines)
    THEN [found |-> TRUE, path |-> BareOf(lines)]
    ELSE [found |-> FALSE, path |-> EmptyPath]

(***************************************************************************)
(* The inputs of one invocation.                                           *)
(***************************************************************************)
BareLine == << AbsText(<<"repo">>), W("(bare)") >>

PlainMainLine == << AbsText(<<"repo">>), W("c0"), W("[main]") >>

LinkedLines ==
    { << AbsText(<<"repo", "a">>), W("c1"), W("[a]") >>,
      << AbsText(<<"repo", "b">>), W("c2"), W("[b]") >>,
      << AbsText(<<"srv", "a">>), W("c3"), W("[hotfix]") >> }

InjectiveSeqs(S, n) ==
    UNION { { s \in [1..k -> S] : \A i, j \in 1..k : s[i] = s[j] => i = j }
            : k \in 0..n }

\* git prints the main worktree first (bare or not), then the linked ones.
Listings ==
    { <<m>> \o s : m \in {BareLine, PlainMainLine},
                   s \in InjectiveSeqs(LinkedLines, MaxLines - 1) }

\* lines of an arbitrary listing text: a blank line, two bare records,
\* one linked worktree
TextLines ==
    { <<>>, BareLine, << AbsText(<<"srv", "store">>), W("(bare)") >>,
      << AbsText(<<"repo", "a">>), W("c1"), W("[a]") >> }

\* any text of at most MaxTextLines lines, in any order, blank lines included
Texts == UNION { [1..k -> TextLines] : k \in 0..MaxTextLines }

TextCwds == { PathOf(AbsText(<<"repo">>)), PathOf(AbsText(<<"repo", "a">>)) }

Cwds ==
    { PathOf(AbsText(<<"repo">>)), PathOf(AbsText(<<"repo", "a">>)),
      PathOf(AbsText(<<"repo", "a", "src">>)), PathOf(AbsText(<<"srv", "a">>)),
      PathOf(AbsText(<<"repo", "b">>)) }

\* argparse.REMAINDER: zero or more words after "add"
AddPaths ==
    { <<>>, << W("feat") >>, << W("feat"), W("main") >>,
      << AbsText(<<"tmp", "x">>) >> }

\* stdout of "git remote show origin": per line, whether the HEAD-branch
\* pattern matches it and the text of its group
RemoteOutputs ==
    { <<>>,
      << [head |-> FALSE, branch |-> "origin"] >>,
      << [head |-> FALSE, branch |-> "origin"], [head |-> TRUE, branch |-> "main"] >>,
      << [head |-> FALSE, branch |-> "origin"], [head |-> TRUE, branch |-> ""] >> }

ArgSets ==
    { [command |-> c, all |-> FALSE, force |-> FALSE, path |-> <<>>]
        : c \in {"list", "bare", "switch"} }
    \cup { [command |-> "add", all |-> FALSE, force |-> FALSE, path |-> p]
             : p \in AddPaths }
    \cup { [command |-> "remove", all |-> a, force |-> f, path |-> <<>>]
             : a \in BOOLEAN, f \in BOOLEAN }

(***************************************************************************)
(* git(): one subprocess.                                                  *)
(***************************************************************************)
NotEmptyStr(t) == t # EmptyStr

\* a command line that keeps its empty arguments
GitCommandUnfiltered(cmds) == << W("git") >> \o cmds

\* list(filter(None, [which("git"), *cmds]))
GitCommand(cmds) == SelectSeq(<< W("git") >> \o cmds, NotEmptyStr)

\* the record of one sp.run: argv, working directory, whether it exited 0
Git(cmds, dir, ok) == [argv |-> GitCommand(cmds), cwd |-> dir, ok |-> ok]

ForceArg(force) == IF force THEN W("--force") ELSE EmptyStr

RemoveCmd(target, force) ==
    << W("worktree"), W("remove"), target, ForceArg(force) >>

ListCall(ok) == Git(<< W("worktree"), W("list") >>, cwd, ok)

(***************************************************************************)
(* Ends of the run.                                                        *)
(***************************************************************************)
\* the operation returns p and main() prints it
Finish(p) ==
    /\ outcome' = <<p>>
    /\ stdout' = Append(stdout, Str(p))
    /\ exitCode' = <<0>>
    /\ pc' = "done"
    /\ UNCHANGED exc

\* an exception nobody catches: traceback, exit status 1
Raise(e) ==
    /\ exc' = e
    /\ exitCode' = <<1>>
    /\ pc' = "crashed"
    /\ UNCHANGED << outcome, stdout >>

\* the state before main() runs, over the given listings and directories
InitOver(listings, dirs) ==
    /\ pc = "start"
    /\ \E a \in ArgSets :
         /\ command = a.command
         /\ args = [all |-> a.all, force |-> a.force, path |-> a.path]
    /\ repo \in listings
    /\ cwd \in dirs
    /\ cwd0 = cwd
    /\ calls = <<>>
    /\ stdout = <<>>
    /\ stderr = <<>>
    /\ log = <<>>
    /\ outcome = <<>>
    /\ exc = "none"
    /\ exitCode = <<>>
    /\ bare_path = EmptyPath
    /\ worktree_path = EmptyPath
    /\ default_branch_name = ""
    /\ worktrees = <<>>
    /\ idx = 0
    /\ options = <<>>
    /\ choice = <<>>
    /\ selection = "not asked"
    /\ dir_path = EmptyPath
    /\ cwd_path = EmptyPath

Init == InitOver(Listings, Cwds)

env == << command, args, repo, cwd0 >>

addLocals == << worktree_path, default_branch_name >>

rmLocals == << worktrees, idx, cwd_path >>

selLocals == << options, choice, selection, dir_path >>

running == << outcome, stdout, exc, exitCode >>

(***************************************************************************)
(* main(): the repository check, then the dispatch on args.command.        *)
(***************************************************************************)
\* a check that takes any result of rev-parse for a repository
InsideAnyway(ok) == TRUE

\* is_inside_git_repo, lines 30-35: False when rev-parse failed
InsideGitRepo(ok) == ok

\* lines 163-165: outside a repository, log and exit with status 128
IsInsideGitRepo ==
    /\ pc = "start"
    /\ \E ok \in BOOLEAN :
         /\ calls' = Append(calls, Git(<< W("rev-parse") >>, cwd, ok))
         /\ IF InsideGitRepo(ok)
            THEN /\ pc' = "dispatch"
                 /\ UNCHANGED << log, exitCode >>
            ELSE /\ log' = Append(log, "error: Not a git repository")
                 /\ exitCode' = <<128>>
                 /\ pc' = "exited"
    /\ UNCHANGED << env, cwd, stdout, stderr, outcome, exc, bare_path,
                    addLocals, rmLocals, selLocals >>

\* list: print(list_worktrees(), file=sys.stderr)
ListCmd ==
    /\ pc = "dispatch"
    /\ command = "list"
    /\ \E ok \in BOOLEAN :
         /\ calls' = Append(calls, ListCall(ok))
         /\ IF ok
            THEN /\ stderr' = Append(stderr, repo)
                 /\ exitCode' = <<0>>
                 /\ pc' = "done"
                 /\ UNCHANGED << outcome, stdout, exc >>
            ELSE /\ Raise("CalledProcessError")
                 /\ UNCHANGED stderr
    /\ UNCHANGED << env, cwd, log, bare_path, addLocals, rmLocals, selLocals >>

\* bare: print(cd_bare())
CdBare ==
    /\ pc = "dispatch"
    /\ command = "bare"
    /\ \E ok \in BOOLEAN :
         /\ calls' = Append(calls, ListCall(ok))
         /\ IF ~ok
            THEN /\ Raise("CalledProcessError")
                 /\ UNCHANGED << bare_path, log >>
            ELSE IF ~BareWorktreePath(repo).found
            THEN /\ Raise("ValueError")
                 /\ UNCHANGED << bare_path, log >>
            ELSE /\ bare_path' = BareWorktreePath(repo).path
                 /\ log' = Append(log, "info: Changing to bare directory")
                 /\ Finish(BareWorktreePath(repo).path)
    /\ UNCHANGED << env, cwd, stderr, addLocals, rmLocals, selLocals >>

(***************************************************************************)
(* add_worktree                                                            *)
(***************************************************************************)
\* an add_worktree that returns Path() once a step failed
AddResultOrNothing(path, failed) == IF failed THEN EmptyPath ELSE path

\* line 75: what add_worktree returns, whether or not a step failed
AddResult(path, failed) == path

\* lines 63-64: resolve the bare root, compute the new worktree's directory
AddResolve ==
    /\ pc = "dispatch"
    /\ command = "add"
    /\ \E ok \in BOOLEAN :
         /\ calls' = Append(calls, ListCall(ok))
         /\ IF ~ok
            THEN /\ Raise("CalledProcessError")
                 /\ UNCHANGED << bare_path, worktree_path >>
            ELSE IF ~BareWorktreePath(repo).found
            THEN /\ Raise("ValueError")
                 /\ UNCHANGED << bare_path, worktree_path >>
            ELSE IF args.path = <<>>
            THEN /\ bare_path' = BareWorktreePath(repo).path
                 /\ Raise("IndexError")
                 /\ UNCHANGED worktree_path
            ELSE /\ bare_path' = BareWorktreePath(repo).path
                 /\ worktree_path' = JoinPath(BareWorktreePath(repo).path, args.path[1])
                 /\ pc' = "add_worktree"
                 /\ UNCHANGED running
    /\ UNCHANGED << env, cwd, stderr, log, default_branch_name, rmLocals,
                    selLocals >>

\* a try block that does not cover the step: the failure is swallowed and
\* the next step runs
TryStepGoOn(ok, next) == next

\* a handler that starts the steps over when one failed
TryStepRetry(ok, next) == IF ok THEN next ELSE "add_worktree"

\* the try block of lines 65-74: a step that fails jumps to the handler,
\* which logs and falls through to the return; a step that succeeds goes on
TryStep(ok, next) == IF ok THEN next ELSE "add_return"

\* the handler's record (line 74), written when the step failed
AddLog(lg, ok) ==
    IF ok THEN lg ELSE Append(lg, "exception: Failed to add worktree")

\* line 66: git worktree add *args.path, run in the bare root
AddCall(ok) == Git(<< W("worktree"), W("add") >> \o args.path, bare_path, ok)

\* line 40: git remote show origin, run where the process is
RemoteShowCall(ok) == Git(<< W("remote"), W("show"), W("origin") >>, cwd, ok)

\* a fetch run in the bare root instead of the new worktree
FetchCallInBare(ok) == Git(<< W("fetch"), W("--all") >>, bare_path, ok)

\* line 70: git fetch --all, run in the new worktree
FetchCall(ok) == Git(<< W("fetch"), W("--all") >>, worktree_path, ok)

\* line 72: git merge <default branch>, run in the new worktree
MergeCall(ok) == Git(<< W("merge"), W(default_branch_name) >>, worktree_path, ok)

AddWorktree ==
    /\ pc = "add_worktree"
    /\ \E ok \in BOOLEAN :
         /\ calls' = Append(calls, AddCall(ok))
         /\ log' = AddLog(log, ok)
         /\ IF TryStep(ok, "add_branch") = "add_return"
            THEN Finish(AddResult(worktree_path, ~ok))
            ELSE pc' = TryStep(ok, "add_branch") /\ UNCHANGED running
    /\ UNCHANGED << env, cwd, stderr, bare_path, addLocals, rmLocals,
                    selLocals >>

RECURSIVE HeadBranch(_, _)
\* lines 43-48: the group of the first line the HEAD-branch pattern matches
HeadBranch(lines, i) ==
    IF i > Len(lines) THEN ""
    ELSE IF lines[i].head THEN lines[i].branch
    ELSE HeadBranch(lines, i + 1)

\* get_default_branch_name: "" when the query fails
DefaultBranchName(ok, out) == IF ok THEN HeadBranch(out, 1) ELSE ""

\* lines 67-69: query the default branch; without one, return
GetDefaultBranchName ==
    /\ pc = "add_branch"
    /\ \E ok \in BOOLEAN, out \in RemoteOutputs :
         /\ ok \/ out = <<>>
         /\ calls' = Append(calls, RemoteShowCall(ok))
         /\ default_branch_name' = DefaultBranchName(ok, out)
         /\ IF DefaultBranchName(ok, out) # ""
            THEN /\ log' = Append(log, "info: Fetching changes")
                 /\ pc' = "add_fetch"
                 /\ UNCHANGED running
            ELSE /\ Finish(AddResult(worktree_path, FALSE))
                 /\ UNCHANGED log
    /\ UNCHANGED << env, cwd, stderr, bare_path, worktree_path, rmLocals,
                    selLocals >>

\* lines 70-71: fetch, then announce the merge
AddFetch ==
    /\ pc = "add_fetch"
    /\ \E ok \in BOOLEAN :
         /\ calls' = Append(calls, FetchCall(ok))
         /\ IF TryStep(ok, "add_merge") = "add_return"
            THEN /\ log' = AddLog(log, ok)
                 /\ Finish(AddResult(worktree_path, ~ok))
            ELSE /\ log' = Append(log, "info: Merging")
                 /\ pc' = TryStep(ok, "add_merge")
                 /\ UNCHANGED running
    /\ UNCHANGED << env, cwd, stderr, bare_path, addLocals, rmLocals,
                    selLocals >>

\* lines 72-75: merge, then return the new worktree's directory
AddMerge ==
    /\ pc = "add_merge"
    /\ \E ok \in BOOLEAN :
         /\ calls' = Append(calls, MergeCall(ok))
         /\ log' = AddLog(log, ok)
         /\ Finish(AddResult(worktree_path, ~ok))
    /\ UNCHANGED << env, cwd, stderr, bare_path, addLocals, rmLocals,
                    selLocals >>

(***************************************************************************)
(* select_worktree, shared by switch_worktree and remove_worktree          *)
(***************************************************************************)
\* a switch_worktree that returns the name it logs instead of the path
SwitchResultName(p) == PathOf(W(Name(p)))

\* how switch_worktree ends (lines 128-130): it returns what was selected
SwitchResult(p) == p

\* select_worktree returned p: the rest of its caller, up to the next
\* subprocess (remove_worktree lines 110-112 and 123, switch_worktree
\* lines 128-130); lg is the log so far
Selected(p, lg) ==
    /\ dir_path' = p
    /\ IF command = "remove"
       THEN /\ cwd_path' = cwd
            /\ IF path_is_truthy(p)
               THEN /\ log' = Append(lg, "info: Removing worktree")
                    /\ pc' = "remove_single"
                    /\ UNCHANGED running
               ELSE /\ log' = lg
                    /\ Finish(EmptyPath)
       ELSE /\ log' = IF path_is_truthy(p)
                      THEN Append(lg, "info: Changing current worktree")
                      ELSE lg
            /\ Finish(SwitchResult(p))
            /\ UNCHANGED cwd_path

\* lines 79-83: query the listing, keep the candidate lines; with no
\* candidate, return Path() without prompting
SelectWorktree ==
    /\ pc = "select"
    /\ \E ok \in BOOLEAN :
         /\ calls' = Append(calls, ListCall(ok))
         /\ IF ~ok
            THEN /\ Raise("CalledProcessError")
                 /\ UNCHANGED << options, log, dir_path, cwd_path >>
            ELSE /\ options' = Options(repo, TRUE)
                 /\ IF Options(repo, TRUE) = <<>>
                    THEN Selected(EmptyPath,
                                  Append(log, "error: No worktrees available."))
                    ELSE /\ pc' = "prompt"
                         /\ UNCHANGED << log, dir_path, cwd_path, running >>
    /\ UNCHANGED << env, cwd, stderr, bare_path, addLocals, worktrees, idx,
                    choice, selection >>

\* lines 84-88: the prompt returns a line of options, or None, or is
\* interrupted; then back in the caller.  A chosen line without a token
\* has no split()[0]: IndexError, which line 87 does not catch.
Prompt ==
    /\ pc = "prompt"
    /\ \/ \E i \in 1..Len(options) :
            /\ selection' = "chosen"
            /\ choice' = << options[i] >>
            /\ IF HasTokens(options[i])
               THEN Selected(PathOf(FirstToken(options[i])), log)
               ELSE /\ Raise("IndexError")
                    /\ UNCHANGED << dir_path, cwd_path, log >>
       \/ /\ selection' = "None"
          /\ Raise("AttributeError")
          /\ UNCHANGED << choice, dir_path, cwd_path, log >>
       \/ /\ selection' = "KeyboardInterrupt"
          /\ Selected(EmptyPath, log)
          /\ UNCHANGED choice
    /\ UNCHANGED << env, cwd, calls, stderr, bare_path, addLocals, worktrees,
                    idx, options >>

\* switch: print(switch_worktree())
SwitchWorktree ==
    /\ pc = "dispatch"
    /\ command = "switch"
    /\ pc' = "select"
    /\ UNCHANGED << env, cwd, calls, stderr, log, running, bare_path,
                    addLocals, rmLocals, selLocals >>

(***************************************************************************)
(* remove_worktree                                                         *)
(***************************************************************************)
\* line 92, then the branch on args.all; --all changes into the bare root
RemoveResolve ==
    /\ pc = "dispatch"
    /\ command = "remove"
    /\ \E ok \in BOOLEAN :
         /\ calls' = Append(calls, ListCall(ok))
         /\ IF ~ok
            THEN /\ Raise("CalledProcessError")
                 /\ UNCHANGED << bare_path, cwd >>
            ELSE IF ~BareWorktreePath(repo).found
            THEN /\ Raise("ValueError")
                 /\ UNCHANGED << bare_path, cwd >>
            ELSE /\ bare_path' = BareWorktreePath(repo).path
                 /\ cwd' = IF args.all THEN BareWorktreePath(repo).path ELSE cwd
                 /\ pc' = IF args.all THEN "remove_all_list" ELSE "select"
                 /\ UNCHANGED running
    /\ UNCHANGED << env, stderr, log, addLocals, rmLocals, selLocals >>

\* line 95: the snapshot the loop iterates; the loop starts at its first
\* line that is not skipped, and returns at once when there is none
RemoveAllList ==
    /\ pc = "remove_all_list"
    /\ \E ok \in BOOLEAN :
         /\ calls' = Append(calls, ListCall(ok))
         /\ IF ~ok
            THEN /\ Raise("CalledProcessError")
                 /\ UNCHANGED << worktrees, idx >>
            ELSE /\ worktrees' = repo
                 /\ idx' = NextNonBare(repo, 1)
                 /\ IF NextNonBare(repo, 1) = 0
                    THEN Finish(bare_path)
                    ELSE pc' = "remove_all_loop" /\ UNCHANGED running
    /\ UNCHANGED << env, cwd, stderr, log, bare_path, addLocals, cwd_path,
                    selLocals >>

\* a loop that gives up at the first removal that fails
AfterRemovalStopOnFailure(lines, i, ok) ==
    IF ok THEN NextNonBare(lines, i + 1) ELSE 0

\* where the --all loop goes after the removal at line i ended (ok or not)
AfterRemoval(lines, i, ok) == NextNonBare(lines, i + 1)

\* lines 96-107: one removal of the loop, skipping on to the next line that
\* is not bare; after the last one, return the bare root.  A line without
\* a token has no split()[0] at line 99, outside the try: IndexError.
RemoveAllStep ==
    /\ pc = "remove_all_loop"
    /\ IF HasTokens(worktrees[idx])
       THEN \E ok \in BOOLEAN :
              /\ calls' = Append(calls,
                     Git(RemoveCmd(FirstToken(worktrees[idx]), args.force),
                         cwd, ok))
              /\ log' = IF ok THEN Append(log, "info: Removing")
                        ELSE log \o << "info: Removing",
                                       "exception: Failed to remove worktree" >>
              /\ idx' = AfterRemoval(worktrees, idx, ok)
              /\ IF AfterRemoval(worktrees, idx, ok) = 0
                 THEN Finish(bare_path)
                 ELSE pc' = "remove_all_loop" /\ UNCHANGED running
       ELSE /\ Raise("IndexError")
            /\ UNCHANGED << calls, log, idx >>
    /\ UNCHANGED << env, cwd, stderr, bare_path, addLocals, worktrees,
                    cwd_path, selLocals >>

\* a comparison of the whole paths instead of their last segments
NextDirectoryByPath(removed, bare, current) ==
    IF removed = current THEN bare ELSE current

\* line 122: where the caller should be after a successful single removal
NextDirectory(removed, bare, current) ==
    IF Name(removed) = Name(current) THEN bare ELSE current

\* a handler that logs the failure and falls through to line 122
SingleRemoveFallThrough(ok, removed, bare, current) ==
    NextDirectory(removed, bare, current)

\* lines 117-122: Path() when the removal failed, else the next directory
SingleRemoveResult(ok, removed, bare, current) ==
    IF ok THEN NextDirectory(removed, bare, current) ELSE EmptyPath

\* lines 113-122: the single removal and the directory to move to
RemoveSingle ==
    /\ pc = "remove_single"
    /\ \E ok \in BOOLEAN :
         /\ calls' = Append(calls,
                Git(RemoveCmd(Str(dir_path), args.force), cwd, ok))
         /\ log' = IF ok THEN log
                   ELSE Append(log, "exception: Failed to remove worktree")
         /\ Finish(SingleRemoveResult(ok, dir_path, bare_path, cwd_path))
    /\ UNCHANGED << env, cwd, stderr, bare_path, addLocals, rmLocals,
                    selLocals >>

Next ==
    \/ IsInsideGitRepo
    \/ ListCmd
    \/ CdBare
    \/ AddResolve
    \/ AddWorktree
    \/ GetDefaultBranchName
    \/ AddFetch
    \/ AddMerge
    \/ SwitchWorktree
    \/ SelectWorktree
    \/ Prompt
    \/ RemoveResolve
    \/ RemoveAllList
    \/ RemoveAllStep
    \/ RemoveSingle

Spec == Init /\ [][Next]_vars

\* the same program over arbitrary listing texts
ParseInit == InitOver(Texts, TextCwds)

ParseSpec == ParseInit /\ [][Next]_vars

(***************************************************************************)
(* What the properties below read off the run.                             *)
(***************************************************************************)
IsGit(c, words) ==
    /\ Len(c.argv) >= 1 + Len(words)
    /\ c.argv[1] = W("git")
    /\ \A i \in 1..Len(words) : c.argv[i + 1] = W(words[i])

IsListCall(c) == IsGit(c, << "worktree", "list" >>)

IsAddCall(c) == IsGit(c, << "worktree", "add" >>)

IsRemoveCall(c) == IsGit(c, << "worktree", "remove" >>)

IsRemoteShowCall(c) == IsGit(c, << "remote", "show", "origin" >>)

IsFetchCall(c) == IsGit(c, << "fetch", "--all" >>)

IsMergeCall(c) == IsGit(c, << "merge" >>)

RemoveCalls == SelectSeq(calls, IsRemoveCall)

\* the path argument of each "worktree remove" issued, in order
RemovedTargets == [i \in 1..Len(RemoveCalls) |-> RemoveCalls[i].argv[4]]

NotBare(line) == ~HasBare(line)

\* the paths of the non-bare records of a listing, in listing order
NonBarePaths(lines) ==
    LET recs == SelectSeq(lines, NotBare)
    IN  [i \in 1..Len(recs) |-> recs[i][1]]

\* the unresolved (no-path, no-op) sentinel as an outcome
NoOp == << EmptyPath >>

(***************************************************************************)
(* C1  remove --all is a best-effort batch.  While the loop runs, the      *)
(* removals attempted so far are exactly those of the non-bare records     *)
(* before the loop position, one each and in listing order, whatever each  *)
(* removal's result was, and the next removal can be taken; when the       *)
(* operation has ended, one removal was attempted for every non-bare       *)
(* record of the snapshot and the outcome is the bare root.                *)
(***************************************************************************)
C1_RemoveAllBestEffort ==
    (command = "remove" /\ args.all /\ pc \in {"remove_all_loop", "done"}) =>
        LET expected == NonBarePaths(worktrees)
        IN  /\ pc = "remove_all_loop" =>
                /\ idx \in 1..Len(worktrees)
                /\ ~HasBare(worktrees[idx])
                /\ RemovedTargets
                     = NonBarePaths(SubSeq(worktrees, 1, idx - 1))
                /\ ENABLED RemoveAllStep
            /\ pc = "done" =>
                /\ RemovedTargets = expected
                /\ outcome = << BareOf(repo) >>
                /\ exc = "none"

\* C1's case: two removals attempted, the first failed, the second did not
C1_Witness ==
    /\ command = "remove" /\ args.all /\ pc = "done"
    /\ Len(RemoveCalls) = 2
    /\ ~RemoveCalls[1].ok /\ RemoveCalls[2].ok
    /\ outcome = << BareOf(repo) >>

\* single-target remove ended after one removal, which succeeded
SingleRemoveSucceeded ==
    /\ command = "remove" /\ ~args.all /\ pc = "done"
    /\ selection = "chosen"
    /\ Len(RemoveCalls) = 1 /\ RemoveCalls[1].ok

(***************************************************************************)
(* C2  Single-target remove, a worktree selected and removed: the outcome  *)
(* is the bare root when the selected worktree's last path segment equals  *)
(* that of the caller's working directory, and the caller's working        *)
(* directory otherwise.                                                    *)
(***************************************************************************)
C2_SingleRemoveOutcome ==
    SingleRemoveSucceeded =>
        LET target == PathOf(RemoveCalls[1].argv[4])
        IN  outcome = IF Name(target) = Name(cwd0)
                      THEN << BareOf(repo) >>
                      ELSE << cwd0 >>

\* C2's case: the caller stands in a directory named like the removed
\* worktree, and is sent to the bare root
C2_Witness ==
    /\ SingleRemoveSucceeded
    /\ Name(PathOf(RemoveCalls[1].argv[4])) = Name(cwd0)
    /\ cwd0 # BareOf(repo)
    /\ outcome = << BareOf(repo) >>

(***************************************************************************)
(* C3  add issues its subprocess steps in a fixed order with fixed working *)
(* directories: "worktree add <pathSpec>" first, in the bare root; then,   *)
(* exactly when the default branch name is non-empty, "fetch --all" and    *)
(* after it "merge <default branch>", both in bare_root / pathSpec[0].     *)
(* With an empty default branch name neither fetch nor merge is issued.    *)
(* (calls[1] is main()'s repository check, calls[2] the listing query of   *)
(* the bare root resolver.)                                                *)
(***************************************************************************)
C3_AddStepOrder ==
    command = "add" =>
        LET n == Len(calls)
            new == JoinPath(BareOf(repo), args.path[1])
        IN  /\ n >= 3 =>
                /\ calls[3].argv
                     = << W("git"), W("worktree"), W("add") >> \o args.path
                /\ calls[3].cwd = BareOf(repo)
            /\ \A i \in 1..n :
                /\ IsAddCall(calls[i]) => i = 3
                /\ IsFetchCall(calls[i]) =>
                     /\ i = 5 /\ IsRemoteShowCall(calls[4])
                     /\ default_branch_name # ""
                     /\ calls[i].argv = << W("git"), W("fetch"), W("--all") >>
                     /\ calls[i].cwd = new
                /\ IsMergeCall(calls[i]) =>
                     /\ i = 6 /\ IsFetchCall(calls[5])
                     /\ default_branch_name # ""
                     /\ calls[i].argv
                          = << W("git"), W("merge"), W(default_branch_name) >>
                     /\ calls[i].cwd = new
            /\ pc = "done" =>
                /\ default_branch_name # "" => (n >= 5 /\ IsFetchCall(calls[5]))
                /\ (n >= 5 /\ calls[5].ok) => (n = 6 /\ IsMergeCall(calls[6]))
                /\ default_branch_name = "" =>
                     \A i \in 1..n :
                         ~IsFetchCall(calls[i]) /\ ~IsMergeCall(calls[i])

\* C3's case: add, fetch and merge were all issued, in that order
C3_Witness ==
    /\ command = "add" /\ pc = "done" /\ Len(calls) = 6
    /\ IsAddCall(calls[3]) /\ IsFetchCall(calls[5]) /\ IsMergeCall(calls[6])
    /\ calls[3].cwd # calls[5].cwd

(***************************************************************************)
(* C4  In add, a failed subprocess step aborts the remaining steps: after  *)
(* a failed "worktree add" no default-branch query, fetch or merge is      *)
(* issued, after a failed fetch no merge; the failed step is the last      *)
(* subprocess of the call and the operation has ended.                     *)
(***************************************************************************)
C4_AddAbortsOnFailure ==
    command = "add" =>
        \A i \in 1..Len(calls) :
            ((IsAddCall(calls[i]) \/ IsFetchCall(calls[i])) /\ ~calls[i].ok)
                => (Len(calls) = i /\ pc = "done")

\* C4's case: the fetch failed and add ended there
C4_Witness ==
    /\ command = "add" /\ pc = "done" /\ Len(calls) = 5
    /\ IsFetchCall(calls[5]) /\ ~calls[5].ok

\* some add / fetch / merge step of this run failed
AddStepFailed ==
    \E i \in 1..Len(calls) :
        /\ IsAddCall(calls[i]) \/ IsFetchCall(calls[i]) \/ IsMergeCall(calls[i])
        /\ ~calls[i].ok

(***************************************************************************)
(* C5  If any subprocess step of add fails (worktree add, fetch or merge), *)
(* add returns a failure outcome, not a directory path.                    *)
(***************************************************************************)
C5_AddFailureOutcome ==
    (command = "add" /\ pc = "done" /\ AddStepFailed) =>
        (~path_is_truthy(outcome[1]) /\ stdout = <<>>)

(***************************************************************************)
(* C6  When the "worktree add" step succeeds, the outcome of add is        *)
(* bare_root / pathSpec[0], whether fetch and merge were skipped, ran, or  *)
(* failed.                                                                 *)
(***************************************************************************)
C6_AddOutcomeIsNewPath ==
    (command = "add" /\ pc = "done" /\ Len(calls) >= 3 /\ calls[3].ok) =>
        outcome = << JoinPath(BareOf(repo), args.path[1]) >>

\* C6's case: the worktree was added, the merge failed, the path is returned
C6_Witness ==
    /\ command = "add" /\ pc = "done" /\ Len(calls) = 6
    /\ calls[3].ok /\ IsMergeCall(calls[6]) /\ ~calls[6].ok
    /\ outcome = << JoinPath(BareOf(repo), args.path[1]) >>
    /\ path_is_truthy(outcome[1])

(***************************************************************************)
(* C7  A cancelled selection (the prompt interrupted, or ended without a   *)
(* chosen line) is a no-op at both call sites of the selector: the         *)
(* operation returns the unresolved sentinel, issues no "worktree remove", *)
(* and no error escapes.                                                   *)
(***************************************************************************)
C7_CancelledSelectionIsNoOp ==
    selection \in {"None", "KeyboardInterrupt"} =>
        /\ exc = "none"
        /\ outcome = NoOp
        /\ RemoveCalls = <<>>

\* the position in calls of the selector's listing query
SelectorListing == IF command = "switch" THEN 2 ELSE 3

(***************************************************************************)
(* C8  When the listing holds no non-bare record, switch and single-target *)
(* remove end in the no-op outcome as soon as the selector has its         *)
(* listing; the prompt is never invoked and no removal is issued.          *)
(***************************************************************************)
C8_NoCandidatesNoPrompt ==
    (command \in {"switch", "remove"} /\ ~args.all
       /\ NonBarePaths(repo) = <<>>) =>
        /\ selection = "not asked"
        /\ pc \notin {"prompt", "remove_single"}
        /\ RemoveCalls = <<>>
        /\ pc = "done" => outcome = NoOp
        /\ (Len(calls) >= SelectorListing /\ calls[SelectorListing].ok)
              => pc = "done"

\* C8's case: switch over a listing of the bare record alone has ended
C8_Witness ==
    /\ command = "switch" /\ repo = << BareLine >> /\ pc = "done"
    /\ selection = "not asked" /\ outcome = NoOp

(***************************************************************************)
(* C9  Standard output carries a resulting directory path or nothing:      *)
(* when an operation ends in the no-op outcome, nothing is written to      *)
(* standard output.                                                        *)
(***************************************************************************)
C9_StdoutPathOrNothing ==
    /\ \A i \in 1..Len(stdout) : path_is_truthy(PathOf(stdout[i]))
    /\ (pc = "done" /\ outcome = NoOp) => stdout = <<>>

(***************************************************************************)
(* C10  No exception reaches the dispatcher, whatever subprocess fails,    *)
(* the listing query included; the only abnormal end of the process is     *)
(* the exit with status 128 outside a repository.                          *)
(***************************************************************************)
C10_NoExceptionEscapes ==
    /\ exc = "none"
    /\ pc # "crashed"
    /\ exitCode \notin {<<>>, <<0>>} => (exitCode = <<128>> /\ pc = "exited")

\* the records of a listing text: its lines that have a token, in order
Records(lines) == SelectSeq(lines, HasTokens)

(***************************************************************************)
(* C11  A listing text is read as one record per non-blank line, in order, *)
(* and every consumer of the listing skips blank lines without error: the  *)
(* selector offers exactly the non-bare records, remove --all attempts     *)
(* exactly the removals of the non-bare records, the bare root is the path *)
(* of a record, and no IndexError is raised on a line without a token.     *)
(***************************************************************************)
C11_BlankLinesSkipped ==
    /\ command \in {"bare", "remove", "switch"} => exc # "IndexError"
    /\ pc = "prompt" => options = SelectSeq(Records(repo), NotBare)
    /\ (command = "remove" /\ args.all /\ pc = "done") =>
           RemovedTargets = NonBarePaths(Records(worktrees))
    /\ (command = "bare" /\ pc = "done") =>
           outcome = << BareOf(Records(repo)) >>

\* the bare root resolver ran on a listing it obtained
ResolverRan ==
    /\ command \in {"bare", "add", "remove"}
    /\ Len(calls) >= 2 /\ calls[2].ok

(***************************************************************************)
(* C12  The bare root resolver returns the path (first whitespace token)   *)
(* of the first listing line flagged bare, hence of the only one when      *)
(* there is exactly one; for a listing with no line flagged bare (or no    *)
(* line at all) it fails with the no-bare-worktree error (ValueError) and  *)
(* no path is returned or printed.                                         *)
(***************************************************************************)
C12_BareRootIsFirstBare ==
    ResolverRan =>
        IF \E i \in 1..Len(repo) : HasBare(repo[i])
        THEN /\ \E i \in 1..Len(repo) :
                  /\ HasBare(repo[i])
                  /\ \A j \in 1..(i - 1) : ~HasBare(repo[j])
                  /\ bare_path = PathOf(repo[i][1])
             /\ exc # "ValueError"
             /\ command = "bare" => (pc = "done" /\ outcome = << bare_path >>)
        ELSE /\ exc = "ValueError" /\ pc = "crashed"
             /\ bare_path = EmptyPath
             /\ outcome = <<>> /\ stdout = <<>>

\* C12's case: of two bare records with different paths, the first is returned
C12_Witness ==
    /\ command = "bare" /\ pc = "done" /\ Len(repo) = 3
    /\ HasBare(repo[2]) /\ HasBare(repo[3]) /\ ~HasBare(repo[1])
    /\ repo[2][1] # repo[3][1]
    /\ outcome = << PathOf(repo[2][1]) >>

\* the repository check failed: the process was started outside a repository
OutsideRepository == Len(calls) >= 1 /\ ~calls[1].ok

(***************************************************************************)
(* C13  Invoked outside a repository, the process exits with status 128    *)
(* before any operation runs: the repository check is the only subprocess  *)
(* ever issued (no listing query, no add / remove / fetch / merge), the    *)
(* prompt is not invoked, no operation returns, and nothing is written to  *)
(* standard output.                                                        *)
(***************************************************************************)
C13_OutsideRepositoryExits ==
    OutsideRepository =>
        /\ pc = "exited" /\ exitCode = << 128 >>
        /\ Len(calls) = 1
        /\ selection = "not asked" /\ options = <<>>
        /\ outcome = <<>> /\ exc = "none"
        /\ stdout = <<>> /\ stderr = <<>>

\* C13's case: remove --all started outside a repository has exited
C13_Witness ==
    /\ OutsideRepository /\ command = "remove" /\ args.all
    /\ pc = "exited" /\ exitCode = << 128 >>

\* single-target remove issued its removal, which failed
SingleRemoveFailed ==
    /\ command = "remove" /\ ~args.all
    /\ selection = "chosen"
    /\ Len(RemoveCalls) = 1 /\ ~RemoveCalls[1].ok

(***************************************************************************)
(* C14  Single-target remove whose "worktree remove" fails returns the     *)
(* unresolved (no-path) sentinel, neither the bare root nor the working    *)
(* directory, and the failed removal is the last subprocess it issues.     *)
(***************************************************************************)
C14_SingleRemoveFailureIsUnresolved ==
    SingleRemoveFailed =>
        /\ pc = "done" /\ exc = "none"
        /\ outcome = NoOp
        /\ outcome # << BareOf(repo) >> /\ outcome # << cwd0 >>
        /\ IsRemoveCall(calls[Len(calls)])

\* C14's case: the caller stood in the worktree whose removal failed
C14_Witness ==
    /\ SingleRemoveFailed /\ pc = "done"
    /\ PathOf(RemoveCalls[1].argv[4]) = cwd0
    /\ outcome = NoOp

(***************************************************************************)
(* C15  No run of remove, in either mode, forced or not, issues "worktree  *)
(* remove" with the path of a record flagged bare: every removed path is   *)
(* the path of a non-bare record of the listing and of no bare one.        *)
(***************************************************************************)
C15_BareNeverRemoved ==
    command = "remove" =>
        \A k \in 1..Len(RemoveCalls) :
            LET target == RemoveCalls[k].argv[4]
            IN  /\ \E i \in 1..Len(repo) :
                       ~HasBare(repo[i]) /\ repo[i][1] = target
                /\ \A i \in 1..Len(repo) :
                       HasBare(repo[i]) => repo[i][1] # target

\* C15's case: a forced remove --all over a listing with a bare record
\* attempted two removals
C15_Witness ==
    /\ command = "remove" /\ args.all /\ args.force /\ pc = "done"
    /\ HasBareLine(repo) /\ Len(repo) = 3
    /\ Len(RemoveCalls) = 2

\* a subprocess that changes the repository or a worktree
IsMutatingCall(c) ==
    IsAddCall(c) \/ IsRemoveCall(c) \/ IsFetchCall(c) \/ IsMergeCall(c)

(***************************************************************************)
(* C16  bare, add and remove (both modes) resolve the bare root before     *)
(* anything else: when the listing has no bare record the operation        *)
(* aborts on the resolver's error as soon as it has the listing, having    *)
(* issued no add / remove / fetch / merge subprocess and without invoking  *)
(* the selection prompt, and returns no path.                              *)
(***************************************************************************)
C16_NoBareRootAborts ==
    (command \in {"bare", "add", "remove"}
       /\ ~(\E i \in 1..Len(repo) : HasBare(repo[i]))) =>
        /\ \A i \in 1..Len(calls) : ~IsMutatingCall(calls[i])
        /\ Len(calls) <= 2
        /\ selection = "not asked" /\ pc # "prompt"
        /\ outcome = <<>> /\ stdout = <<>>
        /\ (Len(calls) = 2 /\ calls[2].ok) =>
               (pc = "crashed" /\ exc = "ValueError")

\* C16's case: single-target remove in a repository without a bare record
\* has aborted
C16_Witness ==
    /\ command = "remove" /\ ~args.all
    /\ ~HasBareLine(repo) /\ Len(repo) = 3
    /\ pc = "crashed" /\ exc = "ValueError"

\* directory p is q or lies below q
IsInside(p, q) ==
    /\ p.abs = q.abs
    /\ Len(p.parts) >= Len(q.parts)
    /\ SubSeq(p.parts, 1, Len(q.parts)) = q.parts

(***************************************************************************)
(* C17  After a successful single-target remove the outcome is the bare    *)
(* root exactly when the caller's working directory is the removed         *)
(* worktree or lies below it, and the caller's working directory           *)
(* otherwise; so the returned directory is never the removed worktree nor  *)
(* a directory below it.                                                   *)
(***************************************************************************)
C17_BareRootIffInsideRemoved ==
    SingleRemoveSucceeded =>
        LET target == PathOf(RemoveCalls[1].argv[4])
        IN  /\ outcome = IF IsInside(cwd0, target)
                         THEN << BareOf(repo) >>
                         ELSE << cwd0 >>
            /\ ~IsInside(outcome[1], target)

(***************************************************************************)
(* C18  switch is pure navigation: no run of it issues an add, remove,     *)
(* fetch or merge subprocess, and when a line was selected the operation   *)
(* has ended with an outcome whose text is exactly the first whitespace    *)
(* token of the selected line, which is a line of the listing that is not  *)
(* flagged bare.                                                           *)
(***************************************************************************)
C18_SwitchIsPureNavigation ==
    command = "switch" =>
        /\ \A i \in 1..Len(calls) : ~IsMutatingCall(calls[i])
        /\ \A i \in 1..Len(calls) : i >= 2 => IsListCall(calls[i])
        /\ selection = "chosen" =>
            /\ pc = "done" /\ Len(choice) = 1
            /\ Str(outcome[1]) = choice[1][1]
            /\ stdout = << choice[1][1] >>
            /\ \E i \in 1..Len(repo) : repo[i] = choice[1] /\ ~HasBare(repo[i])

\* C18's case: the second linked worktree of the listing was selected
C18_Witness ==
    /\ command = "switch" /\ selection = "chosen" /\ pc = "done"
    /\ Len(repo) = 3 /\ HasBare(repo[1])
    /\ choice = << repo[3] >>
    /\ outcome = << PathOf(repo[3][1]) >>

(***************************************************************************)
(* C19  The force flag is passed through in both remove modes: every       *)
(* "worktree remove" carries --force, after the path, if and only if force *)
(* was requested; without force its command line is exactly                *)
(* git worktree remove <path>, with no extra (empty) argument.             *)
(***************************************************************************)
C19_ForcePassedThrough ==
    command = "remove" =>
        \A k \in 1..Len(RemoveCalls) :
            LET argv == RemoveCalls[k].argv
                base == << W("git"), W("worktree"), W("remove"), argv[4] >>
            IN  /\ argv = IF args.force THEN Append(base, W("--force"))
                                        ELSE base
                /\ \A i \in 1..Len(argv) : argv[i] # EmptyStr

\* C19's case: an unforced single removal and its four-word command line
C19_Witness ==
    /\ command = "remove" /\ ~args.all /\ ~args.force /\ pc = "done"
    /\ Len(RemoveCalls) = 1 /\ Len(RemoveCalls[1].argv) = 4

(***************************************************************************)
(* C20  add has at-most-once, no-rollback semantics: in any run of add,    *)
(* "worktree add", "fetch --all" and "merge" are each issued at most once  *)
(* and "worktree remove" never, so a worktree that was created stays when  *)
(* its fetch or merge fails.                                               *)
(***************************************************************************)
C20_AddAtMostOnceNoRollback ==
    command = "add" =>
        /\ Len(SelectSeq(calls, IsAddCall)) <= 1
        /\ Len(SelectSeq(calls, IsFetchCall)) <= 1
        /\ Len(SelectSeq(calls, IsMergeCall)) <= 1
        /\ RemoveCalls = <<>>

\* C20's case: the worktree was created, its fetch failed, add has ended
C20_Witness ==
    /\ command = "add" /\ pc = "done" /\ Len(calls) = 5
    /\ IsAddCall(calls[3]) /\ calls[3].ok
    /\ IsFetchCall(calls[5]) /\ ~calls[5].ok
    /\ RemoveCalls = <<>>

====
